---- MODULE Spec2Model ----
(***************************************************************************)
(* Rare Visual Catalyst: the generation pipeline of the Gemini service     *)
(* (retryOperation, sequentialWithDelay, generateContentFromImage,         *)
(* generateMoreImages, generateImageVariations, extendFrameForVideo), the  *)
(* perspective selection of the App, parseJSON and the fal.ai polling loop *)
(* of generateVideo.                                                       *)
(*                                                                         *)
(* One step of the service model is the code that runs between two awaits: *)
(* a provider response or a timer fires, and the continuation runs until    *)
(* the next request is issued or the next timer is set.                     *)
(***************************************************************************)
EXTENDS Integers, Sequences, FiniteSets, TLC

\* ---------------------------------------------------------------- constants
MAX_TOTAL_IMAGES == 32
DefaultRetries == 4
DefaultDelay == 2000
RateLimitFloor == 3000
DefaultDelayMs == 1500
MaxImagesPerAngle == 10
MaxUploads == 3
MoreImagesTasks == 2
VariationTasks == 3
ExtendTasks == 4

\* ------------------------------------------------------------------- bounds
\* longest perspectives array the prompt-crafting model returns in Spec
MaxCrafted == 3
\* render responses without an image part that one run may contain
MaxNoImage == 1
\* largest custom width and height explored
MaxDim == 8
\* longest text given to parseJSON
MaxLen == 5
\* longest customAngles list explored, and longest list of brainstormed angles
MaxCustom == 2
MaxSuggested == 2

\* ------------------------------------------------------------------- errors
\* An error as retryOperation inspects it: status, code, and the markers the
\* message contains.
NoError == [status |-> 0, code |-> 0, message |-> {}]
ConfigError == [status |-> 0, code |-> 0, message |-> {"config"}]
FailError == [status |-> 0, code |-> 0, message |-> {"Fail"}]
InvalidJSONError == [status |-> 0, code |-> 0, message |-> {"Invalid JSON response from API"}]

\* errors a provider request can fail with
ProviderErrors ==
    { [status |-> 429, code |-> 0, message |-> {}],
      [status |-> 0, code |-> 503, message |-> {}],
      [status |-> 400, code |-> 0, message |-> {"quota"}],
      [status |-> 500, code |-> 0, message |-> {"unavailable"}],
      [status |-> 500, code |-> 0, message |-> {}],
      [status |-> 403, code |-> 0, message |-> {"permission"}] }

isOverloaded(error) ==
    \/ error.status = 503
    \/ error.code = 503
    \/ "overloaded" \in error.message
    \/ "unavailable" \in error.message

isRateLimited(error) ==
    \/ error.status = 429
    \/ error.code = 429
    \/ "429" \in error.message
    \/ "resource_exhausted" \in error.message
    \/ "quota" \in error.message

ShouldRetry_offByOne(error, r) == r >= 0 /\ (isOverloaded(error) \/ isRateLimited(error))

ShouldRetry_anyError(error, r) == r > 0

ShouldRetry(error, r) == r > 0 /\ (isOverloaded(error) \/ isRateLimited(error))

Max(a, b) == IF a >= b THEN a ELSE b

WaitTime_floorAlways(error, d) == Max(d, RateLimitFloor)

\* const waitTime = isRateLimited ? Math.max(delay, 3000) : delay
WaitTime(error, d) == IF isRateLimited(error) THEN Max(d, RateLimitFloor) ELSE d

NextDelay_linear(d) == d + DefaultDelay

NextDelay(d) == d * 2

\* ---------------------------------------------------------------- variables
VARIABLES
    \* App state read by the handlers that start a service operation
    apiKey, uploadedImages, selectedAngles, selectedProductStudioAngles,
    customAngles, imagesPerAngle, generateSocialCopy,
    presets, isBrainstorming, brainstormClosure,
    generatedData,
    \* what the prompt-crafting model answers in this run
    craftReply,
    \* the running exported operation and its position
    op, pc, outcome, inFlight,
    generationOptions, socialPosts, craftState, tasks,
    \* sequentialWithDelay
    i, results, running, rendered, gapWaits,
    \* retryOperation
    retries, delay, invocations, waits, lastError, retryState, thrown,
    \* extendFrameForVideo's textPromise
    textState,
    \* generateVideo (fal.ai): position, loop counter, last polled status,
    \* status fetches made, milliseconds waited between them, settlement
    videoPc, attempts, result, polls, waited, videoOutcome,
    \* parseJSON: its argument and what it returned or threw
    text, parsed,
    \* calculateClosestAspectRatio: its arguments and what it returned
    aspectRatio, customDimensions, targetAspectRatio

selVars == <<selectedAngles, selectedProductStudioAngles, customAngles, imagesPerAngle>>
appVars == <<apiKey, uploadedImages, selVars, generateSocialCopy,
             presets, isBrainstorming, brainstormClosure>>
retryVars == <<retries, delay, invocations, waits, lastError, retryState, thrown>>
seqVars == <<i, results, running, rendered, gapWaits>>
runVars == <<op, pc, outcome, inFlight, generationOptions, socialPosts, craftState,
             tasks, textState>>
svcVars == <<generatedData, craftReply, runVars, seqVars, retryVars>>
falVars == <<videoPc, attempts, result, polls, waited, videoOutcome>>
jsonVars == <<text, parsed>>
ratioVars == <<aspectRatio, customDimensions, targetAspectRatio>>
sideVars == <<falVars, jsonVars, ratioVars>>
vars == <<appVars, svcVars, sideVars>>

Req(kind, task) == [kind |-> kind, task |-> task]

Pending == [status |-> "pending", error |-> NoError, wrapped |-> FALSE]
Resolved == [status |-> "resolved", error |-> NoError, wrapped |-> FALSE]
Rejected(e, w) == [status |-> "rejected", error |-> e, wrapped |-> w]

NoOptions == [selectedAngles |-> <<>>, imagesPerAngle |-> 1, generateSocialCopy |-> FALSE]

CraftReplies(n) ==
    { [kind |-> "error", n |-> 0], [kind |-> "badjson", n |-> 0] }
        \cup { [kind |-> "ok", n |-> k] : k \in 0..n }

maxAttempts == 60
PollIntervalMs == 5000

FalInit ==
    /\ videoPc = "idle" /\ attempts = 0 /\ result = "none" /\ polls = 0 /\ waited = 0
    /\ videoOutcome = "pending"

NotParsed == [state |-> "none", value |-> <<>>, message |-> ""]

JsonInit == text = <<>> /\ parsed = NotParsed

NoDimensions == [given |-> FALSE, width |-> 0, height |-> 0]

RatioInit ==
    aspectRatio = "1:1" /\ customDimensions = NoDimensions /\ targetAspectRatio = "none"

SideInit == FalInit /\ JsonInit /\ RatioInit

\* the values of the render in which handleBrainstormAngles was called
NoClosure == [angles |-> 0, imagesPerAngle |-> 0]

\* ------------------------------------------------------------ initial state
AppIdle == presets = <<>> /\ isBrainstorming = FALSE /\ brainstormClosure = NoClosure

SvcInit ==
    /\ generatedData = "null"
    /\ op = "none" /\ pc = "idle" /\ outcome = Pending /\ inFlight = {}
    /\ generationOptions = NoOptions
    /\ socialPosts = "empty" /\ craftState = "none" /\ tasks = 0
    /\ i = 0 /\ results = <<>> /\ running = {} /\ rendered = {} /\ gapWaits = 0
    /\ retries = DefaultRetries /\ delay = DefaultDelay /\ invocations = 0
    /\ waits = <<>> /\ lastError = NoError /\ retryState = "none" /\ thrown = NoError
    /\ textState = "none"

\* The service is exercised from App states the handlers can produce.
Init ==
    /\ apiKey \in {"", "key"}
    /\ uploadedImages = 1
    /\ selectedAngles \in {<<>>, <<"a1">>}
    /\ selectedProductStudioAngles = <<>>
    /\ customAngles = <<>>
    /\ imagesPerAngle \in 1..2
    /\ generateSocialCopy \in BOOLEAN
    /\ craftReply \in CraftReplies(MaxCrafted)
    /\ AppIdle
    /\ SvcInit
    /\ SideInit

\* --------------------------------------------------------------- the service
HasKey_unchecked == TRUE

\* getAiClient throws when no key is configured
HasKey == apiKey # ""

HasImage(res) == \E k \in 1..Len(res) : res[k].image

NoImageCount(res) == Cardinality({k \in 1..Len(res) : ~res[k].image})

Perspectives_unfiltered(res) == res

\* resolvedPerspectives.filter(p => p !== null)
Perspectives(res) == SelectSeq(res, LAMBDA r : r.image)

PushResult_unshift(res, r) == <<r>> \o res

\* results.push(await tasks[i]())
PushResult(res, r) == Append(res, r)

\* the tasks of generateContentFromImage and generateMoreImages request social
\* copy for a rendered image when the option is set
TaskHasCopy == op \in {"content", "more"} /\ generationOptions.generateSocialCopy

LoopOutcome_strict ==
    IF op = "extend"
    THEN IF textState = "ok" /\ outcome.status = "pending" THEN Resolved ELSE outcome
    ELSE IF op = "content" /\ socialPosts = "empty"
         THEN Rejected(InvalidJSONError, FALSE) ELSE Resolved

\* what the awaiting exported operation settles with when the loop resolves
LoopOutcome ==
    IF op = "extend"
    THEN IF textState = "ok" /\ outcome.status = "pending" THEN Resolved ELSE outcome
    ELSE Resolved

\* setGeneratedData after the operation resolved with the perspectives res
DataAfter(res) ==
    CASE op = "content" -> IF HasImage(res) THEN "images" ELSE "empty"
      [] op = "more" -> IF HasImage(res) THEN "images" ELSE generatedData
      [] OTHER -> generatedData

ResetSeq ==
    /\ i' = 0 /\ results' = <<>> /\ running' = {} /\ rendered' = {} /\ gapWaits' = 0

ResetRetry ==
    /\ retries' = DefaultRetries /\ delay' = DefaultDelay /\ invocations' = 0
    /\ waits' = <<>> /\ lastError' = NoError /\ retryState' = "none" /\ thrown' = NoError

StartTask_eager(k, base) ==
    /\ i' = k
    /\ running' = running \cup {k}
    /\ retries' = DefaultRetries /\ delay' = DefaultDelay /\ invocations' = 1
    /\ waits' = <<>> /\ lastError' = NoError /\ retryState' = "pending" /\ thrown' = NoError
    /\ pc' = "invoke"
    /\ inFlight' = base \cup {Req("render", j) : j \in k..tasks'}

\* sequentialWithDelay calls tasks[k-1](): the task calls retryOperation with the
\* default retries and delay, which invokes the operation (a render request)
StartTask(k, base) ==
    /\ i' = k
    /\ running' = running \cup {k}
    /\ retries' = DefaultRetries /\ delay' = DefaultDelay /\ invocations' = 1
    /\ waits' = <<>> /\ lastError' = NoError /\ retryState' = "pending" /\ thrown' = NoError
    /\ pc' = "invoke"
    /\ inFlight' = base \cup {Req("render", k)}

\* task i resolved with r: push it, then either wait delayMs or return results
FinishTask(r, base) ==
    /\ results' = PushResult(results, r)
    /\ running' = running \ {i}
    /\ inFlight' = base
    /\ IF i < tasks
       THEN pc' = "gap" /\ outcome' = outcome /\ generatedData' = generatedData
       ELSE /\ pc' = "done"
            /\ outcome' = LoopOutcome
            /\ generatedData' = IF LoopOutcome.status = "resolved"
                                THEN DataAfter(PushResult(results, r)) ELSE generatedData

RejectTask_unwrapped(e, base) ==
    /\ running' = running \ {i}
    /\ inFlight' = base
    /\ pc' = "done"
    /\ outcome' = IF outcome.status = "pending" THEN Rejected(e, FALSE) ELSE outcome
    /\ UNCHANGED <<results, generatedData>>

RejectTask_swallow(e, base) ==
    FinishTask([task |-> i, image |-> FALSE, copy |-> "none"], base)

\* task i rejected with e: the loop rejects, and so does the exported operation
\* (generateContentFromImage wraps the error)
RejectTask(e, base) ==
    /\ running' = running \ {i}
    /\ inFlight' = base
    /\ pc' = "done"
    /\ outcome' = IF outcome.status = "pending" THEN Rejected(e, op = "content") ELSE outcome
    /\ UNCHANGED <<results, generatedData>>

CanStart == pc \in {"idle", "done"} /\ inFlight = {}

\* handleGenerate -> generateContentFromImage up to its first await
HandleGenerate ==
    /\ CanStart
    /\ uploadedImages # 0
    /\ LET finalAngles == selectedAngles \o selectedProductStudioAngles \o customAngles
       IN /\ Len(finalAngles) # 0
          /\ ~(Len(finalAngles) * imagesPerAngle > MAX_TOTAL_IMAGES)
          /\ generationOptions' = [selectedAngles |-> finalAngles,
                                   imagesPerAngle |-> imagesPerAngle,
                                   generateSocialCopy |-> generateSocialCopy]
    /\ generatedData' = "null"
    /\ op' = "content"
    /\ socialPosts' = "empty" /\ craftState' = "none" /\ tasks' = 0 /\ textState' = "none"
    /\ ResetSeq /\ ResetRetry
    /\ IF HasKey
       THEN pc' = "social" /\ outcome' = Pending /\ inFlight' = {Req("social", 0)}
       ELSE pc' = "done" /\ outcome' = Rejected(ConfigError, FALSE) /\ inFlight' = {}
    /\ UNCHANGED <<appVars, sideVars, craftReply>>

\* the page-level social copy request settles (any failure is swallowed), then
\* generateCreativeImagePrompts issues the prompt-crafting request
SocialSettles ==
    /\ op = "content" /\ pc = "social"
    /\ \E reply \in {"ok", "badjson", "error"} :
          socialPosts' = IF reply = "ok" THEN "filled" ELSE "empty"
    /\ craftState' = "requested"
    /\ pc' = "craft"
    /\ inFlight' = (inFlight \ {Req("social", 0)}) \cup {Req("craft", 0)}
    /\ UNCHANGED <<appVars, sideVars, generatedData, craftReply, op, outcome, generationOptions,
                   tasks, textState, seqVars, retryVars>>

\* expandedAnglesWithIds.length
ExpandedCount(options) == Len(options.selectedAngles) * options.imagesPerAngle

\* creativePerspectives.length: the array the model returned, or the fallback
\* built from expandedAnglesWithIds when the request or its parsing failed or
\* the array was empty
CreativeCount(reply, options) ==
    IF reply.kind = "ok" /\ reply.n # 0 THEN reply.n ELSE ExpandedCount(options)

\* the prompt-crafting request settles; perspectiveTasks are built and
\* sequentialWithDelay starts the first one
CraftSettles ==
    /\ op = "content" /\ pc = "craft"
    /\ craftState' = "settled"
    /\ tasks' = CreativeCount(craftReply, generationOptions)
    /\ StartTask(1, inFlight \ {Req("craft", 0)})
    /\ UNCHANGED <<appVars, sideVars, generatedData, craftReply, op, outcome, generationOptions,
                   socialPosts, textState, results, rendered, gapWaits>>

\* the operation of retryOperation rejects with e
RenderFails ==
    /\ pc = "invoke" /\ Req("render", i) \in inFlight
    /\ \E e \in ProviderErrors :
        /\ lastError' = e
        /\ IF ShouldRetry(e, retries)
           THEN /\ waits' = Append(waits, [wait |-> WaitTime(e, delay),
                                           rateLimited |-> isRateLimited(e)])
                /\ pc' = "backoff"
                /\ inFlight' = inFlight \ {Req("render", i)}
                /\ UNCHANGED <<retryState, thrown, running, results, outcome, generatedData>>
           ELSE /\ retryState' = "rejected" /\ thrown' = e
                /\ RejectTask(e, inFlight \ {Req("render", i)})
                /\ UNCHANGED waits
    /\ UNCHANGED <<appVars, sideVars, craftReply, op, generationOptions, socialPosts, craftState,
                   tasks, textState, i, rendered, gapWaits, retries, delay, invocations>>

\* setTimeout(waitTime) fires: retryOperation(operation, retries - 1, delay * 2)
BackoffElapses ==
    /\ pc = "backoff"
    /\ retries' = retries - 1
    /\ delay' = NextDelay(delay)
    /\ invocations' = invocations + 1
    /\ pc' = "invoke"
    /\ inFlight' = inFlight \cup {Req("render", i)}
    /\ UNCHANGED <<appVars, sideVars, generatedData, craftReply, op, outcome, generationOptions,
                   socialPosts, craftState, tasks, textState, seqVars,
                   waits, lastError, retryState, thrown>>

AfterImage_noAwait(base) ==
    IF TaskHasCopy
    THEN FinishTask([task |-> i, image |-> TRUE, copy |-> "ok"], base \cup {Req("copy", i)})
    ELSE FinishTask([task |-> i, image |-> TRUE, copy |-> "none"], base)

\* the response carried an image: the task awaits generateSocialCopyForImage
\* when social copy is wanted, and returns the perspective otherwise
AfterImage(base) ==
    IF TaskHasCopy
    THEN /\ pc' = "copy"
         /\ inFlight' = base \cup {Req("copy", i)}
         /\ UNCHANGED <<results, running, outcome, generatedData>>
    ELSE FinishTask([task |-> i, image |-> TRUE, copy |-> "none"], base)

\* the operation of retryOperation resolves with a response
RenderSucceeds ==
    /\ pc = "invoke" /\ Req("render", i) \in inFlight
    /\ retryState' = "resolved"
    /\ \E image \in BOOLEAN :
        LET base == inFlight \ {Req("render", i)} IN
        IF image
        THEN /\ rendered' = rendered \cup {i}
             /\ AfterImage(base)
        ELSE /\ rendered' = rendered
             /\ IF op = "extend"
                THEN RejectTask(FailError, base)
                ELSE /\ NoImageCount(results) < MaxNoImage
                     /\ FinishTask([task |-> i, image |-> FALSE, copy |-> "none"], base)
    /\ UNCHANGED <<appVars, sideVars, craftReply, op, generationOptions, socialPosts, craftState,
                   tasks, textState, i, gapWaits, retries, delay, invocations, waits,
                   lastError, thrown>>

\* generateSocialCopyForImage settles; a failure leaves the perspective
\* without socialCopy
CopySettles ==
    /\ pc = "copy" /\ Req("copy", i) \in inFlight
    /\ \E reply \in {"ok", "badjson", "error"} :
          FinishTask([task |-> i, image |-> TRUE,
                      copy |-> IF reply = "ok" THEN "ok" ELSE "failed"],
                     inFlight \ {Req("copy", i)})
    /\ UNCHANGED <<appVars, sideVars, craftReply, op, generationOptions, socialPosts, craftState,
                   tasks, textState, i, rendered, gapWaits, retryVars>>

\* setTimeout(delayMs) fires and the loop calls the next task
GapElapses ==
    /\ pc = "gap"
    /\ gapWaits' = gapWaits + 1
    /\ StartTask(i + 1, inFlight)
    /\ UNCHANGED <<appVars, sideVars, generatedData, craftReply, op, outcome, generationOptions,
                   socialPosts, craftState, tasks, textState, results, rendered>>

\* handleExpandGeneration -> generateMoreImages
HandleExpandGeneration ==
    /\ CanStart
    /\ generatedData # "null"
    /\ op' = "more"
    /\ generationOptions' = [selectedAngles |-> <<>>, imagesPerAngle |-> 1,
                             generateSocialCopy |-> generateSocialCopy]
    /\ socialPosts' = "empty" /\ craftState' = "none" /\ textState' = "none"
    /\ results' = <<>> /\ rendered' = {} /\ gapWaits' = 0
    /\ IF HasKey
       THEN /\ tasks' = MoreImagesTasks /\ outcome' = Pending
            /\ StartTask(1, {})
       ELSE /\ tasks' = 0 /\ outcome' = Rejected(ConfigError, FALSE)
            /\ pc' = "done" /\ inFlight' = {} /\ i' = 0 /\ running' = {} /\ ResetRetry
    /\ UNCHANGED <<appVars, sideVars, generatedData, craftReply>>

\* VariationsModal's fetchVariations -> generateImageVariations
FetchVariations ==
    /\ CanStart
    /\ generatedData = "images"
    /\ op' = "variations"
    /\ generationOptions' = NoOptions
    /\ socialPosts' = "empty" /\ craftState' = "none" /\ textState' = "none"
    /\ results' = <<>> /\ rendered' = {} /\ gapWaits' = 0
    /\ IF HasKey
       THEN /\ tasks' = VariationTasks /\ outcome' = Pending
            /\ StartTask(1, {})
       ELSE /\ tasks' = 0 /\ outcome' = Rejected(ConfigError, FALSE)
            /\ pc' = "done" /\ inFlight' = {} /\ i' = 0 /\ running' = {} /\ ResetRetry
    /\ UNCHANGED <<appVars, sideVars, generatedData, craftReply>>

\* handleExtendFrame -> extendFrameForVideo: textPromise is created (its request
\* is issued) before Promise.all awaits it together with sequentialWithDelay,
\* whose first task issues its request in the same turn
HandleExtendFrame ==
    /\ CanStart
    /\ generatedData = "images"
    /\ op' = "extend"
    /\ generationOptions' = NoOptions
    /\ socialPosts' = "empty" /\ craftState' = "none"
    /\ results' = <<>> /\ rendered' = {} /\ gapWaits' = 0
    /\ IF HasKey
       THEN /\ tasks' = ExtendTasks /\ outcome' = Pending
            /\ textState' = "inflight"
            /\ StartTask(1, {Req("text", 0)})
       ELSE /\ tasks' = 0 /\ outcome' = Rejected(ConfigError, FALSE)
            /\ textState' = "none"
            /\ pc' = "done" /\ inFlight' = {} /\ i' = 0 /\ running' = {} /\ ResetRetry
    /\ UNCHANGED <<appVars, sideVars, generatedData, craftReply>>

\* textPromise settles: Promise.all resolves once the loop has resolved too, and
\* rejects at the first rejection (the loop keeps running: nothing cancels it)
TextSettles ==
    /\ Req("text", 0) \in inFlight
    /\ inFlight' = inFlight \ {Req("text", 0)}
    /\ \/ /\ textState' = "ok"
          /\ outcome' = IF outcome.status = "pending" /\ pc = "done" THEN Resolved ELSE outcome
       \/ \E e \in ProviderErrors \cup {InvalidJSONError} :
             /\ textState' = "failed"
             /\ outcome' = IF outcome.status = "pending" THEN Rejected(e, FALSE) ELSE outcome
    /\ UNCHANGED <<appVars, sideVars, generatedData, craftReply, op, pc, generationOptions,
                   socialPosts, craftState, tasks, seqVars, retryVars>>

Next ==
    \/ HandleGenerate
    \/ SocialSettles
    \/ CraftSettles
    \/ RenderFails
    \/ BackoffElapses
    \/ RenderSucceeds
    \/ CopySettles
    \/ GapElapses
    \/ HandleExpandGeneration
    \/ FetchVariations
    \/ HandleExtendFrame
    \/ TextSettles

Spec == Init /\ [][Next]_vars

\* ------------------------------------------------------------------- claims
Retryable(error) == isOverloaded(error) \/ isRateLimited(error)

\* C1: retryOperation invokes its operation at most retries+1 = 5 times; when
\* the invocations all fail with retryable errors it rejects only after exactly
\* 5 invocations, and with the error of the last one.
C1_RetryInvocations ==
    /\ invocations <= DefaultRetries + 1
    /\ (retryState = "rejected" /\ Retryable(lastError))
          => (invocations = DefaultRetries + 1 /\ thrown = lastError)
    /\ (pc = "backoff") => invocations <= DefaultRetries

C1_Witness ==
    /\ retryState = "rejected" /\ Retryable(thrown)
    /\ invocations = DefaultRetries + 1 /\ Len(waits) = DefaultRetries

\* C2 as stated: the first wait is the initial delay and every later wait is
\* exactly twice the one before it.
C2_Original ==
    /\ Len(waits) >= 1 => waits[1].wait = DefaultDelay
    /\ \A k \in 1..(Len(waits) - 1) : waits[k + 1].wait = 2 * waits[k].wait

\* C2 amended: the delay doubles on every retry starting from 2000 ms and each
\* wait equals it, except that a wait after a rate-limit failure is at least
\* 3000 ms; that floor only changes the first wait and is not doubled into the
\* later ones (the second wait is always 4000 ms).
C2_Backoff ==
    /\ Len(waits) >= 1 =>
          waits[1].wait = IF waits[1].rateLimited THEN RateLimitFloor ELSE DefaultDelay
    /\ \A k \in 1..(Len(waits) - 1) :
          waits[k + 1].wait = 2 * (IF k = 1 THEN DefaultDelay ELSE waits[k].wait)

C2_Witness ==
    /\ Len(waits) = DefaultRetries
    /\ waits[1].rateLimited /\ waits[1].wait = RateLimitFloor
    /\ waits[2].wait = 2 * DefaultDelay

\* C3: an invocation failing with an error that is neither a rate-limit nor an
\* overload error makes retryOperation reject at once with that error: no wait
\* is taken for it and the operation is not invoked again.
C3_NoRetryOnOtherErrors ==
    (lastError # NoError /\ ~Retryable(lastError)) =>
        /\ retryState = "rejected" /\ thrown = lastError
        /\ pc = "done"
        /\ ~(\E r \in inFlight : r.kind = "render")
        /\ invocations = Len(waits) + 1

C3_Witness ==
    /\ lastError # NoError /\ ~Retryable(lastError)
    /\ retryState = "rejected" /\ retries > 0 /\ invocations >= 2

\* C4: sequentialWithDelay has at most one task in progress, a task is in
\* progress only when all earlier tasks have resolved, and results[k] is the
\* result of task k.
C4_Sequential ==
    /\ Cardinality(running) <= 1
    /\ \A k \in running : k = Len(results) + 1 /\ k = i
    /\ \A k \in 1..Len(results) : results[k].task = k
    /\ Len(results) <= tasks

C4_Witness ==
    /\ pc = "done" /\ outcome.status = "resolved"
    /\ Len(results) = tasks /\ tasks >= 3

\* C5: in generateContentFromImage no render request is in flight or was made
\* before the prompt-crafting request settled; the social copy of perspective k
\* is requested after its image was rendered and while no later render request
\* has been issued, and a render request for task k is issued only when the
\* copy requests of the earlier rendered perspectives have settled.
C5_StageOrder ==
    op = "content" =>
        /\ craftState # "settled" => (i = 0 /\ ~(\E r \in inFlight : r.kind \in {"render", "copy"}))
        /\ \A r \in inFlight :
             /\ r.kind = "render" =>
                  /\ Req("craft", 0) \notin inFlight
                  /\ ~(\E c \in inFlight : c.kind = "copy")
                  /\ r.task = i /\ Len(results) = r.task - 1
                  /\ \A j \in 1..(r.task - 1) :
                        (results[j].image /\ generationOptions.generateSocialCopy)
                            => results[j].copy \in {"ok", "failed"}
             /\ r.kind = "copy" =>
                  /\ r.task \in rendered
                  /\ r.task = i /\ Len(results) = r.task - 1
                  /\ ~(\E c \in inFlight : c.kind = "render")

C5_Witness ==
    /\ op = "content" /\ Req("render", 2) \in inFlight
    /\ results[1].image /\ results[1].copy = "ok"

\* C6 as stated: within one call of an image-producing operation at most one
\* provider request is in flight.
C6_Original ==
    op \in {"content", "more", "variations", "extend"} => Cardinality(inFlight) <= 1

\* C6 amended: generateContentFromImage, generateMoreImages and
\* generateImageVariations have at most one provider request in flight;
\* extendFrameForVideo has at most one image request in flight, together with
\* its transition-text request, which runs concurrently with the image
\* requests (at most two requests in flight).
C6_InFlight ==
    /\ op \in {"content", "more", "variations"} => Cardinality(inFlight) <= 1
    /\ op = "extend" =>
          /\ Cardinality({r \in inFlight : r.kind = "render"}) <= 1
          /\ Cardinality(inFlight) <= 2

C6_Witness ==
    /\ op = "extend" /\ inFlight = {Req("text", 0), Req("render", 2)}

\* ---------------------------------------------------- a run with a long reply
\* One generation run from a selection handleGenerate accepts (one angle, one
\* image per angle), in which the prompt-crafting model returns more
\* perspectives than MAX_TOTAL_IMAGES.
InitCap ==
    /\ apiKey = "key"
    /\ uploadedImages = 1
    /\ selectedAngles = <<"a1">>
    /\ selectedProductStudioAngles = <<>>
    /\ customAngles = <<>>
    /\ imagesPerAngle = 1
    /\ generateSocialCopy = FALSE
    /\ craftReply = [kind |-> "ok", n |-> MAX_TOTAL_IMAGES + 1]
    /\ AppIdle
    /\ SvcInit
    /\ SideInit

NextCap ==
    \/ HandleGenerate
    \/ SocialSettles
    \/ CraftSettles
    \/ RenderFails
    \/ BackoffElapses
    \/ RenderSucceeds
    \/ GapElapses

SpecCap == InitCap /\ [][NextCap]_vars

\* C7: a generation run started by handleGenerate executes at most
\* MAX_TOTAL_IMAGES image-render tasks, whatever the prompt-crafting model
\* returns (i is the number of render tasks started so far).
C7_RenderCap ==
    op = "content" => i <= MAX_TOTAL_IMAGES

\* ------------------------------------------------- the App's perspective state
AngleIds == {"a1"}
ProductAngleIds == {"p1"}
CustomNames == {"c1"}
PresetNames == {"n1"}

Min(a, b) == IF a <= b THEN a ELSE b

Remove(seq, x) == SelectSeq(seq, LAMBDA y : y # x)

Includes(seq, x) == \E k \in 1..Len(seq) : seq[k] = x

\* totalSelectedCount and currentTotalOutputs of the current render
totalSelectedCount == Len(selectedAngles) + Len(selectedProductStudioAngles) + Len(customAngles)

currentTotalOutputs == totalSelectedCount * imagesPerAngle

\* the App as mounted: nothing uploaded, nothing selected, one image per angle
InitApp ==
    /\ apiKey = "key"
    /\ uploadedImages = 0
    /\ selectedAngles = <<>>
    /\ selectedProductStudioAngles = <<>>
    /\ customAngles = <<>>
    /\ imagesPerAngle = 1
    /\ generateSocialCopy = FALSE
    /\ craftReply = [kind |-> "error", n |-> 0]
    /\ AppIdle
    /\ SvcInit
    /\ SideInit

\* the file selections explored: three files at once fill the uploader
FileCounts == {MaxUploads}

\* filesToProcess = files.slice(0, 3 - uploadedImages.length)
HandleFilesSelected ==
    /\ \E files \in FileCounts :
          uploadedImages' = uploadedImages + Min(files, MaxUploads - uploadedImages)
    /\ uploadedImages' # uploadedImages
    /\ UNCHANGED <<apiKey, selVars, generateSocialCopy, presets, isBrainstorming,
                   brainstormClosure, svcVars, sideVars>>

HandleAngleTagChange ==
    /\ \E angleId \in AngleIds :
        LET isSelected == Includes(selectedAngles, angleId)
            newTotalCount == IF isSelected THEN totalSelectedCount - 1 ELSE totalSelectedCount + 1
            newTotalOutputs == newTotalCount * imagesPerAngle
        IN /\ ~(~isSelected /\ newTotalOutputs > MAX_TOTAL_IMAGES)
           /\ selectedAngles' = IF isSelected THEN Remove(selectedAngles, angleId)
                                ELSE Append(selectedAngles, angleId)
    /\ UNCHANGED <<apiKey, uploadedImages, selectedProductStudioAngles, customAngles,
                   imagesPerAngle, generateSocialCopy, presets, isBrainstorming,
                   brainstormClosure, svcVars, sideVars>>

HandleProductAngleTagChange ==
    /\ \E angleId \in ProductAngleIds :
        LET isSelected == Includes(selectedProductStudioAngles, angleId)
            newTotalCount == IF isSelected THEN totalSelectedCount - 1 ELSE totalSelectedCount + 1
            newTotalOutputs == newTotalCount * imagesPerAngle
        IN /\ ~(~isSelected /\ newTotalOutputs > MAX_TOTAL_IMAGES)
           /\ selectedProductStudioAngles' =
                 IF isSelected THEN Remove(selectedProductStudioAngles, angleId)
                 ELSE Append(selectedProductStudioAngles, angleId)
    /\ UNCHANGED <<apiKey, uploadedImages, selectedAngles, customAngles,
                   imagesPerAngle, generateSocialCopy, presets, isBrainstorming,
                   brainstormClosure, svcVars, sideVars>>

HandleAddCustomAngle ==
    /\ \E newAngle \in CustomNames :
        /\ ~Includes(customAngles, newAngle)
        /\ ~((totalSelectedCount + 1) * imagesPerAngle > MAX_TOTAL_IMAGES)
        /\ Len(customAngles) < MaxCustom
        /\ customAngles' = Append(customAngles, newAngle)
    /\ UNCHANGED <<apiKey, uploadedImages, selectedAngles, selectedProductStudioAngles,
                   imagesPerAngle, generateSocialCopy, presets, isBrainstorming,
                   brainstormClosure, svcVars, sideVars>>

HandleRemoveCustomAngle ==
    /\ \E angleToRemove \in CustomNames :
        /\ Includes(customAngles, angleToRemove)
        /\ customAngles' = Remove(customAngles, angleToRemove)
    /\ UNCHANGED <<apiKey, uploadedImages, selectedAngles, selectedProductStudioAngles,
                   imagesPerAngle, generateSocialCopy, presets, isBrainstorming,
                   brainstormClosure, svcVars, sideVars>>

\* the - and + buttons call handleImagesPerAngleChange with the clamped value
HandleImagesPerAngleChange ==
    /\ \E newQuantity \in {Max(1, imagesPerAngle - 1), Min(MaxImagesPerAngle, imagesPerAngle + 1)} :
        /\ newQuantity # imagesPerAngle
        /\ ~(totalSelectedCount * newQuantity > MAX_TOTAL_IMAGES)
        /\ imagesPerAngle' = newQuantity
    /\ UNCHANGED <<apiKey, uploadedImages, selectedAngles, selectedProductStudioAngles,
                   customAngles, generateSocialCopy, presets, isBrainstorming,
                   brainstormClosure, svcVars, sideVars>>

\* handleBrainstormAngles up to its await: the request is sent and the running
\* call keeps the selectedAngles, selectedProductStudioAngles and
\* imagesPerAngle of the render it was created in
HandleBrainstormAngles ==
    /\ ~isBrainstorming
    /\ uploadedImages # 0
    /\ isBrainstorming' = TRUE
    /\ brainstormClosure' = [angles |-> Len(selectedAngles) + Len(selectedProductStudioAngles),
                             imagesPerAngle |-> imagesPerAngle]
    /\ UNCHANGED <<apiKey, uploadedImages, selVars, generateSocialCopy, presets, svcVars, sideVars>>

SuggestedLists == UNION { [1..n -> CustomNames] : n \in 0..MaxSuggested }

\* the updater passed to setCustomAngles
BrainstormUpdate(prev, suggestedAngles, closure) ==
    LET availableSlots ==
            (MAX_TOTAL_IMAGES - closure.angles * closure.imagesPerAngle) \div closure.imagesPerAngle
        all == prev \o suggestedAngles
    IN IF availableSlots <= 0 THEN prev
       ELSE SubSeq(all, 1, Min(availableSlots, Len(all)))

\* generateBrainstormAngles settles: a rejection only sets the error message
BrainstormSettles ==
    /\ isBrainstorming
    /\ \/ UNCHANGED customAngles
       \/ \E suggestedAngles \in SuggestedLists :
            /\ Len(suggestedAngles) > 0
            /\ Len(customAngles) + Len(suggestedAngles) <= MaxCustom
            /\ customAngles' = BrainstormUpdate(customAngles, suggestedAngles, brainstormClosure)
    /\ isBrainstorming' = FALSE
    /\ brainstormClosure' = NoClosure
    /\ UNCHANGED <<apiKey, uploadedImages, selectedAngles, selectedProductStudioAngles,
                   imagesPerAngle, generateSocialCopy, presets, svcVars, sideVars>>

HandleSavePreset ==
    /\ \E name \in PresetNames :
        /\ ~(\E k \in 1..Len(presets) : presets[k].name = name)
        /\ presets' = Append(presets,
              [name |-> name,
               settings |-> [selectedAngles |-> selectedAngles,
                             selectedProductStudioAngles |-> selectedProductStudioAngles,
                             customAngles |-> customAngles,
                             imagesPerAngle |-> imagesPerAngle]])
    /\ UNCHANGED <<apiKey, uploadedImages, selVars, generateSocialCopy, isBrainstorming,
                   brainstormClosure, svcVars, sideVars>>

HandleLoadPreset ==
    /\ \E k \in 1..Len(presets) :
        LET settings == presets[k].settings IN
        /\ selectedAngles' = settings.selectedAngles
        /\ selectedProductStudioAngles' = settings.selectedProductStudioAngles
        /\ customAngles' = settings.customAngles
        /\ imagesPerAngle' = IF settings.imagesPerAngle # 0 THEN settings.imagesPerAngle
                             ELSE imagesPerAngle
    /\ UNCHANGED <<apiKey, uploadedImages, generateSocialCopy, presets, isBrainstorming,
                   brainstormClosure, svcVars, sideVars>>

HandleDeletePreset ==
    /\ \E name \in PresetNames :
        /\ \E k \in 1..Len(presets) : presets[k].name = name
        /\ presets' = SelectSeq(presets, LAMBDA q : q.name # name)
    /\ UNCHANGED <<apiKey, uploadedImages, selVars, generateSocialCopy, isBrainstorming,
                   brainstormClosure, svcVars, sideVars>>

NextApp ==
    \/ HandleFilesSelected
    \/ HandleAngleTagChange
    \/ HandleProductAngleTagChange
    \/ HandleAddCustomAngle
    \/ HandleRemoveCustomAngle
    \/ HandleImagesPerAngleChange
    \/ HandleBrainstormAngles
    \/ BrainstormSettles
    \/ HandleSavePreset
    \/ HandleLoadPreset
    \/ HandleDeletePreset

SpecApp == InitApp /\ [][NextApp]_vars

\* C8: in every reachable state of the App the selected, product and custom
\* angles times imagesPerAngle do not exceed MAX_TOTAL_IMAGES.
C8_TotalOutputsCap == currentTotalOutputs <= MAX_TOTAL_IMAGES

\* ------------------------------------------------------------- generateVideo
\* statuses a fal.ai status response can carry ("none": no status field)
QueueStatuses == {"IN_QUEUE", "IN_PROGRESS", "COMPLETED", "ERROR", "none"}

LoopContinues_inclusive(a) == a <= maxAttempts

\* while (attempts < maxAttempts)
LoopContinues(a) == a < maxAttempts

InitVideo ==
    /\ apiKey = "key"
    /\ uploadedImages = 0
    /\ selectedAngles = <<>>
    /\ selectedProductStudioAngles = <<>>
    /\ customAngles = <<>>
    /\ imagesPerAngle = 1
    /\ generateSocialCopy = FALSE
    /\ craftReply = [kind |-> "error", n |-> 0]
    /\ AppIdle
    /\ SvcInit
    /\ SideInit

\* generateVideo is called: the submission request is sent
GenerateVideo ==
    /\ videoPc \in {"idle", "done"}
    /\ videoPc' = "submit"
    /\ attempts' = 0 /\ result' = "none" /\ polls' = 0 /\ waited' = 0
    /\ videoOutcome' = "pending"
    /\ UNCHANGED <<appVars, svcVars, jsonVars, ratioVars>>

\* the submission settles: a network failure, a status other than 200 or a
\* response without url rejects; otherwise the polling loop is entered and
\* sets its first 5 s timer
SubmitSettles ==
    /\ videoPc = "submit"
    /\ \/ /\ \E reason \in {"network", "submit failed", "no status url"} :
               videoOutcome' = reason
          /\ videoPc' = "done"
       \/ IF LoopContinues(attempts)
          THEN videoPc' = "wait" /\ UNCHANGED videoOutcome
          ELSE videoPc' = "done" /\ videoOutcome' = "timed out"
    /\ UNCHANGED <<appVars, svcVars, jsonVars, ratioVars, attempts, result, polls, waited>>

\* the 5 s timer fires and the status is fetched
PollTimerFires ==
    /\ videoPc = "wait"
    /\ waited' = waited + PollIntervalMs
    /\ polls' = polls + 1
    /\ videoPc' = "poll"
    /\ UNCHANGED <<appVars, svcVars, jsonVars, ratioVars, attempts, result, videoOutcome>>

\* what generateVideo settles with once the loop was left by break
AfterLoop(status, hasUrl) ==
    IF status # "COMPLETED" THEN "failed with final status"
    ELSE IF hasUrl THEN "resolved" ELSE "no video url"

\* the status fetch settles
PollSettles ==
    /\ videoPc = "poll"
    /\ \/ /\ \E reason \in {"network", "status not ok"} : videoOutcome' = reason
          /\ videoPc' = "done"
          /\ UNCHANGED <<attempts, result>>
       \/ \E status \in QueueStatuses, hasUrl \in BOOLEAN :
            /\ result' = status
            /\ CASE status = "COMPLETED" ->
                      /\ videoPc' = "done"
                      /\ videoOutcome' = AfterLoop(status, hasUrl)
                      /\ UNCHANGED attempts
                 [] status = "ERROR" ->
                      /\ videoPc' = "done"
                      /\ videoOutcome' = "model error"
                      /\ UNCHANGED attempts
                 [] status = "none" ->
                      \* result.status.toLowerCase() throws a TypeError
                      /\ videoPc' = "done"
                      /\ videoOutcome' = "type error"
                      /\ UNCHANGED attempts
                 [] OTHER ->
                      /\ attempts' = attempts + 1
                      /\ IF LoopContinues(attempts + 1)
                         THEN videoPc' = "wait" /\ UNCHANGED videoOutcome
                         ELSE videoPc' = "done" /\ videoOutcome' = "timed out"
    /\ UNCHANGED <<appVars, svcVars, jsonVars, ratioVars, polls, waited>>

NextVideo ==
    \/ GenerateVideo
    \/ SubmitSettles
    \/ PollTimerFires
    \/ PollSettles

\* timers fire and fetches settle
SpecVideo ==
    /\ InitVideo /\ [][NextVideo]_vars
    /\ WF_vars(SubmitSettles) /\ WF_vars(PollTimerFires) /\ WF_vars(PollSettles)

\* C10: after a successful submission generateVideo makes at most 60 status
\* polls, each after a 5 s wait, and it settles; when 60 polls reported neither
\* COMPLETED nor ERROR it rejects with the timed-out error.
C10_PollingSettles ==
    /\ [](/\ polls <= maxAttempts
          /\ waited = polls * PollIntervalMs
          /\ attempts <= polls
          /\ (videoPc = "done" /\ attempts = maxAttempts) => videoOutcome = "timed out"
          /\ (videoPc = "done") <=> (videoOutcome # "pending"))
    /\ (videoPc = "wait") ~> (videoPc = "done")

C10_Witness ==
    /\ videoPc = "done" /\ polls = maxAttempts /\ attempts = maxAttempts
    /\ videoOutcome = "timed out" /\ waited = maxAttempts * PollIntervalMs

\* ----------------------------------------------------------------- parseJSON
\* A text is a sequence of characters from this alphabet; "f" stands for a run
\* of three backticks, "j" for the word json, "q" for a double quote, "w" for a
\* whitespace character and "p" for any other prose character.
Alphabet == {"{", "}", "[", "]", "q", "f", "j", "w", "p"}

Texts == UNION { [1..n -> Alphabet] : n \in 0..MaxLen }

RECURSIVE SkipWs(_)
SkipWs(s) == IF s # <<>> /\ Head(s) = "w" THEN SkipWs(Tail(s)) ELSE s

RECURSIVE TrimEnd(_)
TrimEnd(s) == IF s # <<>> /\ s[Len(s)] = "w" THEN TrimEnd(SubSeq(s, 1, Len(s) - 1)) ELSE s

\* indexOf and lastIndexOf, 1-based; 0 when the character does not occur
IndexOf(s, c) ==
    IF \E k \in 1..Len(s) : s[k] = c
    THEN CHOOSE k \in 1..Len(s) : s[k] = c /\ \A m \in 1..(k - 1) : s[m] # c
    ELSE 0

LastIndexOf(s, c) ==
    IF \E k \in 1..Len(s) : s[k] = c
    THEN CHOOSE k \in 1..Len(s) : s[k] = c /\ \A m \in (k + 1)..Len(s) : s[m] # c
    ELSE 0

Drop(s, n) == SubSeq(s, n + 1, Len(s))

NoValue == [ok |-> FALSE, value |-> <<>>, rest |-> <<>>]

\* One JSON value at the head of s. Over this alphabet the JSON values are the
\* strings (a quote, characters other than a quote, a quote), the arrays of at
\* most one element and the empty object; the value is kept as its characters
\* without the insignificant whitespace.
RECURSIVE ParseValue(_)
ParseValue(s) ==
    IF s = <<>> THEN NoValue
    ELSE CASE Head(s) = "q" ->
                LET close == IndexOf(Tail(s), "q") IN
                IF close = 0 THEN NoValue
                ELSE [ok |-> TRUE, value |-> SubSeq(s, 1, close + 1), rest |-> Drop(s, close + 1)]
           [] Head(s) = "{" ->
                LET t == SkipWs(Tail(s)) IN
                IF t # <<>> /\ Head(t) = "}"
                THEN [ok |-> TRUE, value |-> <<"{", "}">>, rest |-> Tail(t)]
                ELSE NoValue
           [] Head(s) = "[" ->
                LET t == SkipWs(Tail(s)) IN
                IF t # <<>> /\ Head(t) = "]"
                THEN [ok |-> TRUE, value |-> <<"[", "]">>, rest |-> Tail(t)]
                ELSE LET v == ParseValue(t)
                         u == SkipWs(v.rest)
                     IN IF v.ok /\ u # <<>> /\ Head(u) = "]"
                        THEN [ok |-> TRUE, value |-> <<"[">> \o v.value \o <<"]">>,
                              rest |-> Tail(u)]
                        ELSE NoValue
           [] OTHER -> NoValue

\* JSON.parse: the value, or a SyntaxError (ok = FALSE)
JSONParse(s) ==
    LET v == ParseValue(SkipWs(s)) IN
    IF v.ok /\ SkipWs(v.rest) = <<>> THEN [ok |-> TRUE, value |-> v.value]
    ELSE [ok |-> FALSE, value |-> <<>>]

\* text.match(/```(?:json)?\s*([\s\S]*?)\s*```/): the match starts at the first
\* fence and needs a second one; group 1 lies between the opening fence (with
\* an optional json and whitespace) and the next fence, without its trailing
\* whitespace
MarkdownMatch(s) ==
    LET open == IndexOf(s, "f")
        after == Drop(s, open)
        body == SkipWs(IF after # <<>> /\ Head(after) = "j" THEN Tail(after) ELSE after)
        close == IndexOf(body, "f")
    IN IF open = 0 \/ close = 0 THEN [found |-> FALSE, group |-> <<>>]
       ELSE [found |-> TRUE, group |-> TrimEnd(SubSeq(body, 1, close - 1))]

\* the span from the first { to the last }, or from the first [ to the last ],
\* whichever structure opens first; <<0, 0>> when there is none
Span(s) ==
    LET firstCurly == IndexOf(s, "{")
        lastCurly == LastIndexOf(s, "}")
        firstSquare == IndexOf(s, "[")
        lastSquare == LastIndexOf(s, "]")
        hasObject == firstCurly # 0 /\ lastCurly > firstCurly
        hasArray == firstSquare # 0 /\ lastSquare > firstSquare
    IN IF hasObject /\ hasArray
       THEN IF firstCurly < firstSquare THEN <<firstCurly, lastCurly>>
            ELSE <<firstSquare, lastSquare>>
       ELSE IF hasObject THEN <<firstCurly, lastCurly>>
       ELSE IF hasArray THEN <<firstSquare, lastSquare>>
       ELSE <<0, 0>>

Returned(v) == [state |-> "returned", value |-> v, message |-> ""]

Thrown(m) == [state |-> "thrown", value |-> <<>>, message |-> m]

InvalidJSONMessage == "Invalid JSON response from API"

parseJSON(s) ==
    LET direct == JSONParse(s)
        markdownMatch == MarkdownMatch(s)
        span == Span(s)
    IN IF direct.ok THEN Returned(direct.value)
       ELSE IF markdownMatch.found
            THEN LET fenced == JSONParse(markdownMatch.group) IN
                 IF fenced.ok THEN Returned(fenced.value) ELSE Thrown(InvalidJSONMessage)
            ELSE IF span[1] # 0 /\ span[2] # 0
                 THEN LET inner == JSONParse(SubSeq(s, span[1], span[2])) IN
                      IF inner.ok THEN Returned(inner.value) ELSE Thrown(InvalidJSONMessage)
                 ELSE Thrown(InvalidJSONMessage)

InitParse ==
    /\ apiKey = "key"
    /\ uploadedImages = 0
    /\ selectedAngles = <<>>
    /\ selectedProductStudioAngles = <<>>
    /\ customAngles = <<>>
    /\ imagesPerAngle = 1
    /\ generateSocialCopy = FALSE
    /\ craftReply = [kind |-> "error", n |-> 0]
    /\ AppIdle
    /\ SvcInit
    /\ FalInit
    /\ RatioInit
    /\ text \in Texts
    /\ parsed = NotParsed

ParseJSON ==
    /\ parsed.state = "none"
    /\ parsed' = parseJSON(text)
    /\ UNCHANGED <<appVars, svcVars, falVars, ratioVars, text>>

NextParse == ParseJSON

SpecParse == InitParse /\ [][NextParse]_vars

ProseChars == Alphabet \ {"{", "}", "[", "]"}

IsProse(s) == \A k \in 1..Len(s) : s[k] \in ProseChars

\* the bodies b for which s is a fenced block, ``` b ``` or ```json b ```
FencedBodies(s) ==
    IF Len(s) >= 2 /\ s[1] = "f" /\ s[Len(s)] = "f"
    THEN {SubSeq(s, 2, Len(s) - 1)}
         \cup (IF Len(s) >= 3 /\ s[2] = "j" THEN {SubSeq(s, 3, Len(s) - 1)} ELSE {})
    ELSE {}

\* the objects and arrays j for which s is j surrounded by prose without
\* brace or bracket characters
WrappedStructures(s) ==
    { SubSeq(s, a, b) : a \in 1..Len(s), b \in 1..Len(s) } \cap
    { j \in Texts : /\ j # <<>>
                    /\ Head(j) \in {"{", "["}
                    /\ JSONParse(j).ok
                    /\ \E a \in 1..Len(s) :
                          /\ a + Len(j) - 1 <= Len(s)
                          /\ SubSeq(s, a, a + Len(j) - 1) = j
                          /\ IsProse(SubSeq(s, 1, a - 1))
                          /\ IsProse(Drop(s, a + Len(j) - 1)) }

\* C9: parseJSON returns the parsed value when the text is valid JSON, when it
\* is valid JSON wrapped in a ``` or ```json fenced block, and when it is a
\* valid JSON object or array surrounded by prose without brace or bracket
\* characters; any failure is an Error 'Invalid JSON response from API'.
C9_TolerantParsing ==
    parsed.state # "none" =>
        /\ JSONParse(text).ok => parsed = Returned(JSONParse(text).value)
        /\ \A b \in FencedBodies(text) :
              JSONParse(b).ok => parsed = Returned(JSONParse(b).value)
        /\ ~JSONParse(text).ok =>
              \A j \in WrappedStructures(text) : parsed = Returned(JSONParse(j).value)
        /\ parsed.state = "thrown" => parsed.message = InvalidJSONMessage

\* ------------------------------------------------ the one-request operations
\* generateSingleImage, editImage, refineImage, analyzeImage and
\* generateBrainstormAngles: getAiClient, then one request; the first three
\* wrap the request in retryOperation and throw when the response has no image
SingleOps == {"single", "edit", "refine", "analyze", "brainstorm"}

RetriedOps == {"single", "edit", "refine"}

NoImageError == [status |-> 0, code |-> 0, message |-> {"no image"}]

\* saveAllKeys / clearAllKeys of the settings panel, used between operations
SaveAllKeys ==
    /\ CanStart
    /\ \E v \in {"", "key"} : apiKey' = v
    /\ apiKey' # apiKey
    /\ UNCHANGED <<uploadedImages, selVars, generateSocialCopy, presets, isBrainstorming,
                   brainstormClosure, svcVars, sideVars>>

\* one of the one-request operations is called
CallSingle ==
    /\ CanStart
    /\ \E name \in SingleOps :
          /\ name \in RetriedOps => generatedData = "images"
          /\ name \notin RetriedOps => uploadedImages # 0
          /\ op' = name
          /\ IF HasKey
             THEN /\ outcome' = Pending /\ pc' = "single" /\ inFlight' = {Req(name, 0)}
                  /\ retries' = DefaultRetries /\ delay' = DefaultDelay /\ invocations' = 1
                  /\ waits' = <<>> /\ lastError' = NoError /\ retryState' = "pending"
                  /\ thrown' = NoError
             ELSE /\ outcome' = Rejected(ConfigError, FALSE) /\ pc' = "done" /\ inFlight' = {}
                  /\ ResetRetry
    /\ generationOptions' = NoOptions
    /\ socialPosts' = "empty" /\ craftState' = "none" /\ textState' = "none" /\ tasks' = 0
    /\ ResetSeq
    /\ UNCHANGED <<appVars, sideVars, generatedData, craftReply>>

\* the request rejects with e: retryOperation retries it, the others rethrow
SingleFails ==
    /\ pc = "single" /\ Req(op, 0) \in inFlight
    /\ \E e \in ProviderErrors :
        /\ lastError' = e
        /\ inFlight' = {}
        /\ IF op \in RetriedOps /\ ShouldRetry(e, retries)
           THEN /\ waits' = Append(waits, [wait |-> WaitTime(e, delay),
                                           rateLimited |-> isRateLimited(e)])
                /\ pc' = "singleBackoff"
                /\ UNCHANGED <<retryState, thrown, outcome>>
           ELSE /\ retryState' = "rejected" /\ thrown' = e
                /\ pc' = "done"
                /\ outcome' = Rejected(e, FALSE)
                /\ UNCHANGED waits
    /\ UNCHANGED <<appVars, sideVars, generatedData, craftReply, op, generationOptions,
                   socialPosts, craftState, tasks, textState, seqVars,
                   retries, delay, invocations>>

\* setTimeout(waitTime) fires: retryOperation(operation, retries - 1, delay * 2)
SingleBackoffElapses ==
    /\ pc = "singleBackoff"
    /\ retries' = retries - 1
    /\ delay' = NextDelay(delay)
    /\ invocations' = invocations + 1
    /\ pc' = "single"
    /\ inFlight' = {Req(op, 0)}
    /\ UNCHANGED <<appVars, sideVars, generatedData, craftReply, op, outcome, generationOptions,
                   socialPosts, craftState, tasks, textState, seqVars,
                   waits, lastError, retryState, thrown>>

\* the request resolves: an image operation throws when the response has no
\* image, generateBrainstormAngles when parseJSON throws; analyzeImage returns
\* response.text whatever it is
SingleSucceeds ==
    /\ pc = "single" /\ Req(op, 0) \in inFlight
    /\ retryState' = "resolved"
    /\ inFlight' = {}
    /\ pc' = "done"
    /\ \E usable \in BOOLEAN :
          outcome' = IF usable \/ op = "analyze" THEN Resolved
                     ELSE IF op = "brainstorm" THEN Rejected(InvalidJSONError, FALSE)
                     ELSE Rejected(NoImageError, FALSE)
    /\ UNCHANGED <<appVars, sideVars, generatedData, craftReply, op, generationOptions,
                   socialPosts, craftState, tasks, textState, seqVars,
                   retries, delay, invocations, waits, lastError, thrown>>

InitKey ==
    /\ apiKey \in {"", "key"}
    /\ uploadedImages = 1
    /\ selectedAngles = <<"a1">>
    /\ selectedProductStudioAngles = <<>>
    /\ customAngles = <<>>
    /\ imagesPerAngle = 1
    /\ generateSocialCopy \in BOOLEAN
    /\ craftReply = [kind |-> "ok", n |-> 1]
    /\ AppIdle
    /\ SvcInit
    /\ SideInit

NextKey ==
    \/ SaveAllKeys
    \/ CallSingle
    \/ SingleFails
    \/ SingleBackoffElapses
    \/ SingleSucceeds
    \/ HandleGenerate
    \/ SocialSettles
    \/ CraftSettles
    \/ RenderFails
    \/ BackoffElapses
    \/ RenderSucceeds
    \/ CopySettles
    \/ GapElapses
    \/ HandleExpandGeneration
    \/ FetchVariations
    \/ HandleExtendFrame
    \/ TextSettles

SpecKey == InitKey /\ [][NextKey]_vars

\* C11: when no Gemini API key is configured, every step that calls an
\* exported operation of the service leaves it rejected with the
\* configuration error, with no provider request in flight.
C11_NoKeyNoRequest ==
    [][(apiKey = "" /\ apiKey' = apiKey) =>
          /\ outcome' = Rejected(ConfigError, FALSE)
          /\ pc' = "done"
          /\ inFlight' = {}
          /\ invocations' = 0]_vars

\* editImage was called after the key was cleared
C11_Witness ==
    /\ apiKey = "" /\ op = "edit" /\ pc = "done"
    /\ outcome = Rejected(ConfigError, FALSE) /\ inFlight = {} /\ invocations = 0

\* C12: the wait before the k-th retry is delay * 2^(k-1) after an overload
\* failure and max(delay * 2^(k-1), 3000) after a rate-limit failure; the
\* floor is not carried into later waits.
C12_WaitFormula ==
    \A k \in 1..Len(waits) :
        waits[k].wait = IF waits[k].rateLimited
                        THEN Max(DefaultDelay * 2^(k - 1), RateLimitFloor)
                        ELSE DefaultDelay * 2^(k - 1)

\* four retries, the first after a rate-limit failure (floored to 3000 ms), the
\* second after an overload failure (4000 ms, not 6000), the last rate-limited
C12_Witness ==
    /\ Len(waits) = DefaultRetries
    /\ waits[1].rateLimited /\ waits[1].wait = 3000
    /\ ~waits[2].rateLimited /\ waits[2].wait = 4000
    /\ waits[3].wait = 8000
    /\ waits[4].rateLimited /\ waits[4].wait = 16000

\* C13: sequentialWithDelay waits delayMs before every task except the first
\* (n-1 waits for n tasks that all resolve, none for one task), and once a task
\* rejects no later task is started and the call rejects with that task's
\* error.
C13_GapsAndStop ==
    /\ gapWaits = Max(i - 1, 0)
    /\ (pc = "done" /\ tasks >= 1 /\ Len(results) = tasks) => gapWaits = tasks - 1
    /\ tasks <= 1 => gapWaits = 0
    /\ (retryState = "rejected") =>
          /\ pc = "done" /\ running = {}
          /\ i = Len(results) + 1
          /\ \A k \in (i + 1)..tasks : Req("render", k) \notin inFlight
          /\ outcome.status = "rejected"
          /\ op # "extend" => outcome.error = thrown

\* the second of at least three tasks rejected after one wait
C13_Witness ==
    /\ retryState = "rejected" /\ pc = "done"
    /\ tasks >= 3 /\ i = 2 /\ Len(results) = 1 /\ gapWaits = 1
    /\ outcome.status = "rejected" /\ outcome.error = thrown

\* C14 as stated: generateContentFromImage rejects only when an image-render
\* task rejected.
C14_Original ==
    (op = "content" /\ outcome.status = "rejected") => retryState = "rejected"

\* C14 amended: once getAiClient returned a client, generateContentFromImage
\* rejects only when an image-render task rejected; a failed page-level social
\* copy request leaves socialPosts empty, a failed prompt-crafting request
\* gives the fallback prompts, a failed per-image copy request gives a
\* perspective without socialCopy, and the run completes. Without a key the
\* call rejects with the configuration error.
C14_OnlyRenderRejects ==
    op = "content" =>
        /\ (outcome.status = "rejected") =>
              \/ apiKey = "" /\ outcome = Rejected(ConfigError, FALSE)
              \/ retryState = "rejected" /\ outcome = Rejected(thrown, TRUE)
        /\ (apiKey # "" /\ retryState # "rejected") =>
              /\ outcome.status # "rejected"
              /\ (pc = "done") => (outcome = Resolved /\ Len(results) = tasks)
        /\ (craftState = "settled" /\ craftReply.kind # "ok") =>
              tasks = ExpandedCount(generationOptions)
        /\ \A k \in 1..Len(results) : results[k].copy = "failed" => results[k].image

\* a run in which the page-level social copy, the prompt crafting and a
\* per-image social copy all failed, and which resolved
C14_Witness ==
    /\ op = "content" /\ pc = "done" /\ outcome = Resolved
    /\ socialPosts = "empty" /\ craftReply.kind = "error"
    /\ Len(results) = tasks
    /\ \E k \in 1..Len(results) : results[k].copy = "failed"

\* C15: when an image-render task of generateContentFromImage rejects (a
\* non-retryable error, or a retryable one after all retries), the call rejects
\* with the task's message prefixed 'Image generation failed: ', no later
\* render task is started, and the perspectives rendered so far are not
\* returned.
C15_RenderFailureRejects ==
    (op = "content" /\ retryState = "rejected") =>
        /\ ~Retryable(thrown) \/ invocations = DefaultRetries + 1
        /\ outcome = Rejected(thrown, TRUE)
        /\ pc = "done" /\ inFlight = {} /\ running = {}
        /\ i = Len(results) + 1
        /\ generatedData = "null"

\* the second of three render tasks rejected after the first had rendered an
\* image
C15_Witness ==
    /\ op = "content" /\ retryState = "rejected" /\ pc = "done"
    /\ tasks = 3 /\ i = 2 /\ 1 \in rendered
    /\ outcome = Rejected(thrown, TRUE) /\ generatedData = "null"

\* C16: a render response without an image part drops only that perspective:
\* generateContentFromImage returns, in the order of the crafted prompts,
\* exactly the perspectives whose render response carried an image.
C16_NoImageDropsOne ==
    (op = "content" /\ pc = "done" /\ outcome = Resolved) =>
        LET p == Perspectives(results) IN
        /\ Len(results) = tasks
        /\ \A k \in 1..Len(p) : p[k].image
        /\ \A k \in 1..(Len(p) - 1) : p[k].task < p[k + 1].task
        /\ {p[k].task : k \in 1..Len(p)} = rendered
        /\ Len(p) = tasks - NoImageCount(results)

\* three crafted prompts, the second render response without an image
C16_Witness ==
    /\ op = "content" /\ pc = "done" /\ outcome = Resolved
    /\ tasks = 3 /\ rendered = {1, 3}
    /\ Len(Perspectives(results)) = 2
    /\ Perspectives(results)[1].task = 1 /\ Perspectives(results)[2].task = 3

\* ------------------------------------------------ calculateClosestAspectRatio
\* JavaScript numbers are IEEE-754 doubles. The doubles that occur here are
\* written as fixed-point binary numerals, most significant bit first, with
\* IntBits bits before the point and FracBits after it; every double between
\* 2^-7 and 2^4 is such a numeral.
IntBits == 4
FracBits == 60
Precision == 53

\* the len-bit numeral of the integer n
ToBits(n, len) == [k \in 1..len |-> (n \div 2^(len - k)) % 2]

\* (r * 2^k) % b, the remainder left after k steps of the long division of r
\* by b, computed without leaving the 32-bit integers
Remainder(r, b, k) ==
    LET chunk == 2^10 % b
        high == IF k < 10 THEN 1 % b ELSE (chunk^(k \div 10)) % b
        low == (2^(k % 10)) % b
    IN (((high * low) % b) * r) % b

\* the first n bits of the binary expansion of r / b (0 <= r < b), followed by
\* one bit telling whether anything is left
FractionBits(r, b, n) ==
    [k \in 1..(n + 1) |->
        IF k <= n THEN (2 * Remainder(r, b, k - 1)) \div b
        ELSE IF Remainder(r, b, n) = 0 THEN 0 ELSE 1]

\* the numeral plus one unit of position p: the carry runs up to the nearest 0
Increment(bits, p) ==
    IF \A k \in 1..p : bits[k] = 1 THEN bits
    ELSE LET j == CHOOSE k \in 1..p : bits[k] = 0 /\ \A m \in (k + 1)..p : bits[m] = 1
         IN [k \in 1..Len(bits) |-> IF k = j THEN 1 ELSE IF k > j /\ k <= p THEN 0 ELSE bits[k]]

LeadingOne(bits) ==
    IF \E k \in 1..Len(bits) : bits[k] = 1
    THEN CHOOSE k \in 1..Len(bits) : bits[k] = 1 /\ \A m \in 1..(k - 1) : bits[m] = 0
    ELSE 0

\* round to nearest, ties to even, keeping Precision significant bits
RoundToDouble(bits) ==
    LET lead == LeadingOne(bits)
        last == lead + Precision - 1
    IN IF lead = 0 \/ last >= Len(bits) THEN bits
       ELSE LET kept == [k \in 1..Len(bits) |-> IF k <= last THEN bits[k] ELSE 0]
                half == bits[last + 1] = 1
                more == \E k \in (last + 2)..Len(bits) : bits[k] = 1
            IN IF half /\ (more \/ bits[last] = 1) THEN Increment(kept, last) ELSE kept

\* the double w / h
Divide(w, h) ==
    SubSeq(RoundToDouble(ToBits(w \div h, IntBits) \o FractionBits(w % h, h, FracBits)),
           1, IntBits + FracBits)

\* x < y, comparing the bits from position s on
LessFrom(x, y, s) ==
    \E k \in s..Len(x) : x[k] < y[k] /\ \A m \in s..(k - 1) : x[m] = y[m]

Less(x, y) == LessFrom(x, y, 1)

\* x - y for x >= y: position k borrows when the lower bits of x are below
\* those of y
Subtract(x, y) ==
    [k \in 1..Len(x) |-> (2 + x[k] - y[k] - (IF LessFrom(x, y, k + 1) THEN 1 ELSE 0)) % 2]

\* Math.abs(x - y)
AbsDiff(x, y) ==
    RoundToDouble(IF Less(x, y) THEN Subtract(y, x) ELSE Subtract(x, y))

\* Number.MAX_VALUE: above every difference
MaxValue == [k \in 1..(IntBits + FracBits) |-> 1]

standards ==
    << [id |-> "1:1", num |-> 1, den |-> 1],
       [id |-> "16:9", num |-> 16, den |-> 9],
       [id |-> "9:16", num |-> 9, den |-> 16],
       [id |-> "4:3", num |-> 4, den |-> 3],
       [id |-> "3:4", num |-> 3, den |-> 4] >>

\* the for loop over standards from index k on
RECURSIVE ClosestFrom(_, _, _, _)
ClosestFrom(ratio, k, closestId, minDiff) ==
    IF k > Len(standards) THEN closestId
    ELSE LET std == standards[k]
             diff == AbsDiff(ratio, Divide(std.num, std.den))
         IN IF Less(diff, minDiff)
            THEN ClosestFrom(ratio, k + 1, std.id, diff)
            ELSE ClosestFrom(ratio, k + 1, closestId, minDiff)

calculateClosestAspectRatio(ar, customDims) ==
    IF ar # "custom" THEN ar
    ELSE IF ~customDims.given \/ customDims.width = 0 \/ customDims.height = 0 THEN "1:1"
    ELSE ClosestFrom(Divide(customDims.width, customDims.height), 1, "1:1", MaxValue)

AspectRatios == {"1:1", "16:9", "9:16", "4:3", "3:4", "21:9", "custom"}

Dimensions ==
    {NoDimensions} \cup
    { [given |-> TRUE, width |-> w, height |-> h] : w \in 0..MaxDim, h \in 0..MaxDim }

InitRatio ==
    /\ apiKey = "key"
    /\ uploadedImages = 0
    /\ selectedAngles = <<>>
    /\ selectedProductStudioAngles = <<>>
    /\ customAngles = <<>>
    /\ imagesPerAngle = 1
    /\ generateSocialCopy = FALSE
    /\ craftReply = [kind |-> "error", n |-> 0]
    /\ AppIdle
    /\ SvcInit
    /\ FalInit
    /\ JsonInit
    /\ aspectRatio \in AspectRatios
    /\ customDimensions \in Dimensions
    /\ targetAspectRatio = "none"

CalculateClosestAspectRatio ==
    /\ targetAspectRatio = "none"
    /\ targetAspectRatio' = calculateClosestAspectRatio(aspectRatio, customDimensions)
    /\ UNCHANGED <<appVars, svcVars, falVars, jsonVars, aspectRatio, customDimensions>>

NextRatio == CalculateClosestAspectRatio

SpecRatio == InitRatio /\ [][NextRatio]_vars

\* |w/h - a.num/a.den| < |w/h - b.num/b.den| in exact arithmetic
Abs(n) == IF n < 0 THEN 0 - n ELSE n

Nearer(w, h, a, b) ==
    Abs(w * a.den - a.num * h) * b.den < Abs(w * b.den - b.num * h) * a.den

\* the earliest standard ratio to which none is nearer
NearestId(w, h) ==
    LET best == CHOOSE k \in 1..Len(standards) :
                    /\ \A m \in 1..Len(standards) : ~Nearer(w, h, standards[m], standards[k])
                    /\ \A m \in 1..(k - 1) : Nearer(w, h, standards[k], standards[m])
    IN standards[best].id

\* C17: calculateClosestAspectRatio returns a ratio other than 'custom'
\* unchanged; for 'custom' it returns '1:1' when the dimensions are missing or
\* have a zero side, and otherwise the standard ratio nearest to width/height,
\* the earliest of the list on a tie.
C17_ClosestAspectRatio ==
    targetAspectRatio # "none" =>
        targetAspectRatio =
            IF aspectRatio # "custom" THEN aspectRatio
            ELSE IF ~customDimensions.given \/ customDimensions.width = 0
                    \/ customDimensions.height = 0 THEN "1:1"
            ELSE NearestId(customDimensions.width, customDimensions.height)

====
